---- MODULE Spec2Model ----
(***************************************************************************)
(* ghfs: an http.FileSystem over one immutable git tree.                   *)
(*                                                                         *)
(* The module models the handles of ghfs.go (the lemmi/git generation):    *)
(* ghfsFile (Read / Seek / Close over a forward-only blob stream),         *)
(* ghfsDir (Readdir over a TreeScanner) and ghfs.Open, together with the   *)
(* index-based ghfsDir.Readdir of the git2go generation.                   *)
(*                                                                         *)
(* The object store is the external collaborator.  It is modelled by its   *)
(* contract only: a blob stream delivers the blob's bytes in order, may    *)
(* deliver fewer bytes than asked for (a short read), and reports io.EOF   *)
(* either together with the last bytes or on the read after them.  Store   *)
(* I/O failures are outside the model.                                     *)
(***************************************************************************)
EXTENDS Integers, Sequences, FiniteSets, TLC

\* ------------------------------------------------------------------ bounds
MaxSize == 3        \* largest blob, in bytes
MaxLen == 2         \* largest buffer handed to Read, and largest stream delivery
MaxEntries == 3     \* largest tree, in entries
MaxCount == 2       \* largest count handed to Readdir
MaxPath == 2        \* longest path handed to Open, in characters

\* os.SEEK_SET, os.SEEK_CUR, os.SEEK_END and one value that is none of them
SEEK_SET == 0
SEEK_CUR == 1
SEEK_END == 2
Whences == {SEEK_SET, SEEK_CUR, SEEK_END, SEEK_END + 1}

Min(a, b) == IF a < b THEN a ELSE b

\* The blobs of the snapshot: byte i of a blob is written i, so that a byte
\* delivered from the wrong place is a different byte.  The handles never
\* look at the bytes they move.
Contents == {[i \in 1..n |-> i] : n \in 0..MaxSize}
Offsets == (0 - (MaxSize + 1))..(MaxSize + 1)

VARIABLES
    content,    \* the blob's bytes (immutable snapshot)
    eager,      \* the store's streams report io.EOF together with the last bytes
    f,          \* the ghfsFile: [open, spos, off, atEnd]
    flast,      \* the last call on f: its arguments, results and store traffic
    got,        \* bytes delivered by Read since the handle was opened / last sought
    base,       \* the offset the last seek returned
    phase,      \* what came before the reads: "fresh" (the open), "back" (a
                \* backward seek), "seek" (another seek that succeeded),
                \* "failed" (a seek that failed), "closed" (a Close)
    eofSeen,    \* a Read returned io.EOF since the phase began
    pos,        \* offset of a true random-access file driven by the same calls
    fwd,        \* every call so far was a read or a forward seek
    live        \* streams the store has handed out and not yet seen closed

fvars == <<content, eager, f, flast, got, base, phase, eofSeen, pos, fwd, live>>

VARIABLES
    tree,       \* the entries of the listed tree, in the store's order
    d,          \* a ghfsDir that is listed in pieces: [tree, scanned]
    u,          \* a second ghfsDir over the same tree
    di,         \* a ghfsDir of the git2go generation: [tree, idx]
    dlast,      \* the last Readdir call: handle, count, result, entries left before
    dacc,       \* the entries d has returned so far, concatenated
    ufirst      \* the first Readdir call on u: its count and result

dvars == <<tree, d, u, di, dlast, dacc, ufirst>>

VARIABLES
    snap,       \* the snapshot: the type of the root tree's entry of each name
    hs,         \* the handles the caller holds, by slot
    olast,      \* the last Open call: path, result and store lookups
    step        \* the operation of the last step on the filesystem

ovars == <<snap, hs, olast, step>>

VARIABLES
    solo,       \* each slot's handle as it is when its calls run alone
    same,       \* every call so far returned what it returns in the run alone
    hres        \* the last call on a handle: slot, kind of handle, result

pvars == <<solo, same, hres>>

vars == <<fvars, dvars, ovars, pvars>>

\* ------------------------------------------------------------- ghfsFile
\* f.entry.Size(): the declared blob size, trusted to match the stream.
Size == Len(content)

\* A ghfsFile constructed with its stream already open.
NewFileEager == [open |-> TRUE, spos |-> 0, off |-> 0, atEnd |-> FALSE]

\* &ghfsFile{entry: entry, fi: fi}: rc == nil, off == 0, atEnd == false.
\* open/spos stand for rc: whether a stream is held and how many bytes of
\* the blob that stream has delivered.
NewFile == [open |-> FALSE, spos |-> 0, off |-> 0, atEnd |-> FALSE]

\* One call of rc.Read(buf) on the blob stream at position spos with
\* len(buf) = len: at most chunk bytes; io.EOF with the last bytes when the
\* stream is eager, otherwise on the next call.
StreamRead(spos, len, chunk) ==
    LET rem == Size - spos
        n == Min(Min(len, chunk), rem)
    IN [n |-> n,
        err |-> IF rem = 0 \/ (eager /\ n = rem) THEN "EOF" ELSE "nil",
        data |-> SubSeq(content, spos + 1, spos + n)]

\* A Read that opens a fresh stream on every call.
ReadReopen(h, len, chunk) ==
    LET h1 == [h EXCEPT !.open = TRUE, !.spos = 0]
        r == StreamRead(h1.spos, len, chunk)
    IN IF h1.atEnd
       THEN [f |-> h1, n |-> 0, err |-> "EOF", data |-> <<>>, opens |-> 1, pulled |-> 0]
       ELSE [f |-> [h1 EXCEPT !.spos = @ + r.n, !.off = @ + r.n],
             n |-> r.n, err |-> r.err, data |-> r.data, opens |-> 1, pulled |-> r.n]

\* ghfsFile.Read.  opens / pulled count the streams asked of the store and
\* the bytes pulled from it by this call.
Read(h, len, chunk) ==
    LET o == IF h.open THEN 0 ELSE 1
        h1 == IF h.open THEN h ELSE [h EXCEPT !.open = TRUE, !.spos = 0]
        r == StreamRead(h1.spos, len, chunk)
    IN IF h1.atEnd
       THEN [f |-> h1, n |-> 0, err |-> "EOF", data |-> <<>>, opens |-> o, pulled |-> 0]
       ELSE [f |-> [h1 EXCEPT !.spos = @ + r.n, !.off = @ + r.n],
             n |-> r.n, err |-> r.err, data |-> r.data, opens |-> o, pulled |-> r.n]

\* A Close that drops the stream and leaves off where it was.
CloseKeepOff(h) ==
    [f |-> [h EXCEPT !.open = FALSE, !.spos = 0],
     closes |-> IF h.open THEN 1 ELSE 0]

\* A Close that forgets the stream without closing it at the store.
CloseLeak(h) ==
    [f |-> [h EXCEPT !.open = FALSE, !.spos = 0, !.off = 0],
     closes |-> 0]

\* ghfsFile.Close: the stream, if any, is closed and dropped; off = 0.
Close(h) ==
    [f |-> [h EXCEPT !.open = FALSE, !.spos = 0, !.off = 0],
     closes |-> IF h.open THEN 1 ELSE 0]

\* io.Copy(ioutil.Discard, io.LimitReader(f, left)): read f until the limit
\* is used up or a read reports an error; io.EOF ends the copy silently.
RECURSIVE CopyLoop(_, _, _, _, _, _)
CopyLoop(h, left, written, opens, pulled, chunk) ==
    IF left <= 0
    THEN [f |-> h, written |-> written, err |-> "nil", opens |-> opens, pulled |-> pulled]
    ELSE LET r == Read(h, left, chunk)
         IN IF r.err # "nil"
            THEN [f |-> r.f, written |-> written + r.n,
                  err |-> IF r.err = "EOF" THEN "nil" ELSE r.err,
                  opens |-> opens + r.opens, pulled |-> pulled + r.pulled]
            ELSE CopyLoop(r.f, left - r.n, written + r.n,
                          opens + r.opens, pulled + r.pulled, chunk)

\* io.CopyN(ioutil.Discard, f, n): n bytes copied is success; fewer with no
\* error of the copy is io.EOF.
CopyN(h, n, chunk) ==
    LET c == CopyLoop(h, n, 0, 0, 0, chunk)
    IN [f |-> c.f, written |-> c.written,
        err |-> IF c.written = n THEN "nil"
                ELSE IF c.err = "nil" THEN "EOF" ELSE c.err,
        opens |-> c.opens, pulled |-> c.pulled]

SeekResult(h, ret, err, opens, pulled, closes) ==
    [f |-> h, ret |-> ret, err |-> err, opens |-> opens, pulled |-> pulled,
     closes |-> closes]

\* A backward seek that skips from the current stream instead of a new one.
SeekToNoReset(h, noff, chunk) ==
    IF noff < 0 THEN SeekResult(h, 0, "Invalid offset", 0, 0, 0)
    ELSE IF noff < h.off
    THEN LET r == CopyN(h, noff, chunk)
         IN SeekResult(r.f, r.written, r.err, r.opens, r.pulled, 0)
    ELSE LET r == CopyN(h, noff - h.off, chunk)
         IN SeekResult(r.f, r.f.off, r.err, r.opens, r.pulled, 0)

\* The second switch of ghfsFile.Seek, atEnd already cleared.
SeekTo(h, noff, chunk) ==
    IF noff < 0 THEN SeekResult(h, 0, "Invalid offset", 0, 0, 0)
    ELSE IF noff < h.off
    THEN LET c == Close(h)
             r == CopyN(c.f, noff, chunk)
         IN SeekResult(r.f, r.written, r.err, r.opens, r.pulled, c.closes)
    ELSE LET r == CopyN(h, noff - h.off, chunk)
         IN SeekResult(r.f, r.f.off, r.err, r.opens, r.pulled, 0)

\* A Seek that takes SEEK_CUR from off even when the handle is at the end.
SeekNoRemap(h, offset, whence, chunk) ==
    LET h1 == [h EXCEPT !.atEnd = FALSE]
    IN IF whence = SEEK_SET THEN SeekTo(h1, offset, chunk)
       ELSE IF whence = SEEK_CUR THEN SeekTo(h1, h.off + offset, chunk)
       ELSE IF whence = SEEK_END
       THEN IF offset = 0
            THEN SeekResult([h EXCEPT !.atEnd = TRUE], Size, "nil", 0, 0, 0)
            ELSE SeekTo(h1, Size + offset, chunk)
       ELSE SeekResult(h, 0, "Invalid argument for whence", 0, 0, 0)

\* A Seek without the (0, SEEK_END) short cut: the end is reached by reading.
SeekNoShortcut(h, offset, whence, chunk) ==
    LET w == IF whence = SEEK_CUR /\ h.atEnd THEN SEEK_END ELSE whence
        h1 == [h EXCEPT !.atEnd = FALSE]
    IN IF w = SEEK_SET THEN SeekTo(h1, offset, chunk)
       ELSE IF w = SEEK_CUR THEN SeekTo(h1, h.off + offset, chunk)
       ELSE IF w = SEEK_END THEN SeekTo(h1, Size + offset, chunk)
       ELSE SeekResult(h, 0, "Invalid argument for whence", 0, 0, 0)

\* ghfsFile.Seek.
Seek(h, offset, whence, chunk) ==
    LET w == IF whence = SEEK_CUR /\ h.atEnd THEN SEEK_END ELSE whence
        h1 == [h EXCEPT !.atEnd = FALSE]
    IN IF w = SEEK_SET THEN SeekTo(h1, offset, chunk)
       ELSE IF w = SEEK_CUR THEN SeekTo(h1, h.off + offset, chunk)
       ELSE IF w = SEEK_END
       THEN IF offset = 0
            THEN SeekResult([h EXCEPT !.atEnd = TRUE], Size, "nil", 0, 0, 0)
            ELSE SeekTo(h1, Size + offset, chunk)
       ELSE SeekResult(h, 0, "Invalid argument for whence", 0, 0, 0)

\* The position the handle reports: what Seek(0, SEEK_CUR) returns.
LogOff(h) == IF h.atEnd THEN Size ELSE h.off

\* ------------------------------------------- the random-access reference
\* POSIX lseek target on a file of Size bytes at offset p; -1 when whence
\* is none of the three.
RefTarget(p, offset, whence) ==
    IF whence = SEEK_SET THEN offset
    ELSE IF whence = SEEK_CUR THEN p + offset
    ELSE IF whence = SEEK_END THEN Size + offset
    ELSE 0 - 1

\* Bytes a read of len at offset p of a random-access file delivers.
RefRead(p, len, chunk) == IF p >= Size THEN 0 ELSE Min(Min(len, chunk), Size - p)

\* -------------------------------------------------------------- ghfsDir
Trees == {[i \in 1..n |-> i] : n \in 0..MaxEntries}
Counts == (0 - 1)..MaxCount

\* NewDir: &ghfsDir{tree, fi, scanner} with a scanner that has produced
\* nothing yet.  scanned is the number of entries the scanner has produced.
NewDir(t) == [tree |-> t, scanned |-> 0]

\* The loop of ghfsDir.Readdir: c counts up to count, each round asks
\* scanner.Scan() for the next entry and stops when there is none.
RECURSIVE ReaddirLoop(_, _, _, _)
ReaddirLoop(h, c, count, ret) ==
    IF c < count /\ h.scanned < Len(h.tree)
    THEN ReaddirLoop([h EXCEPT !.scanned = @ + 1], c + 1, count,
                     Append(ret, h.tree[h.scanned + 1]))
    ELSE [d |-> h, entries |-> ret, err |-> "nil"]

\* ghfsDir.Readdir (scanner generation); scanner.Err() is nil.
Readdir(h, count) == ReaddirLoop(h, 0, count, <<>>)

\* The ghfsDir of the git2go generation: &ghfsDir{tree, fi}, idx == 0.
NewDirIdx(t) == [tree |-> t, idx |-> 0]

\* Its loop: from idx to the end, stopping once count > 0 entries are held.
RECURSIVE ReaddirIdxLoop(_, _, _)
ReaddirIdxLoop(h, count, ret) ==
    IF h.idx < Len(h.tree) /\ ~(count > 0 /\ Len(ret) >= count)
    THEN ReaddirIdxLoop([h EXCEPT !.idx = @ + 1], count,
                        Append(ret, h.tree[h.idx + 1]))
    ELSE [d |-> h, entries |-> ret, err |-> "nil"]

\* ghfsDir.Readdir (git2go generation): io.EOF once idx is at the end.
ReaddirIdx(h, count) ==
    IF h.idx >= Len(h.tree)
    THEN [d |-> h, entries |-> <<>>, err |-> "EOF"]
    ELSE ReaddirIdxLoop(h, count, <<>>)


\* ----------------------------------------------------------------- ghfs
Chars == {"/", "a", "b"}
Paths == UNION {[1..n -> Chars] : n \in 0..MaxPath}
Names == {"a"}
\* entry.Type: "none" is no entry of that name; "commit" is an entry that is
\* neither a tree nor a blob (a submodule).
Types == {"none", "tree", "blob", "commit"}
HandleIds == {"h1", "h2"}

\* fs.tree.GetTreeEntryByPath(name): the snapshot's root tree holds at most
\* the entry "a", of any type, and a subtree is empty; no other path resolves.
GetTreeEntryByPath(name) ==
    IF Len(name) = 1 /\ name[1] \in Names THEN snap[name[1]] ELSE "none"

\* The root tree's entries in the store's (lexicographic) order.
RootEntries == SelectSeq(<<"a">>, LAMBDA n : snap[n] # "none")

\* rootFileInfo: Name() "", Size() 0, IsDir() true.
RootFileInfo == [name |-> <<>>, size |-> 0, dir |-> TRUE]

\* modTimeFileInfo{entry, ...}: the entry's own name, size and kind.
EntryFileInfo(name, type) ==
    [name |-> name, size |-> IF type = "blob" THEN Size ELSE 0, dir |-> type = "tree"]

NoHandle == [kind |-> "none", etype |-> "none", tree |-> "none", fi |-> RootFileInfo,
             file |-> NewFile, dir |-> NewDir(<<>>)]

OpenResult(kind, err, etype, over, fi, entries, lookups) ==
    [h |-> [kind |-> kind, etype |-> etype, tree |-> over, fi |-> fi,
            file |-> NewFile, dir |-> NewDir(entries)],
     err |-> err, lookups |-> lookups]

OpenFailed(err, etype, lookups) ==
    [h |-> [NoHandle EXCEPT !.etype = etype], err |-> err, lookups |-> lookups]

\* The type switch with the default case treated as a blob.
OpenEntryAnyAsFile(name, type) ==
    IF type = "tree"
    THEN OpenResult("dir", "nil", type, name, EntryFileInfo(name, type), <<>>, <<name>>)
    ELSE OpenResult("file", "nil", type, "none", EntryFileInfo(name, type), <<>>, <<name>>)

\* The type switch of ghfs.Open on the entry the store returned.
OpenEntry(name, type) ==
    IF type = "tree"
    THEN OpenResult("dir", "nil", type, name, EntryFileInfo(name, type), <<>>, <<name>>)
    ELSE IF type = "blob"
    THEN OpenResult("file", "nil", type, "none", EntryFileInfo(name, type), <<>>, <<name>>)
    ELSE OpenFailed("Invalid type", type, <<name>>)

\* strings.HasPrefix(name, "/"): name = name[1:].
StripSlash(name) == IF Len(name) >= 1 /\ name[1] = "/" THEN Tail(name) ELSE name

\* An Open that resolves the root path at the store like any other path.
OpenLookupRoot(name) ==
    LET n == StripSlash(name)
        type == GetTreeEntryByPath(n)
    IN IF type = "none" THEN OpenFailed("NotFound", "none", <<n>>)
       ELSE OpenEntry(n, type)

\* An Open that drops the lookup's error and uses the nil entry: a nil
\* dereference.
OpenIgnoreErr(name) ==
    LET n == StripSlash(name)
        type == IF n = <<>> THEN "none" ELSE GetTreeEntryByPath(n)
    IN IF n = <<>>
       THEN OpenResult("dir", "nil", "root", "root", RootFileInfo, RootEntries, <<>>)
       ELSE IF type = "none" THEN OpenFailed("panic", "none", <<n>>)
       ELSE OpenEntry(n, type)

\* ghfs.Open.
Open(name) ==
    LET n == StripSlash(name)
        type == IF n = <<>> THEN "none" ELSE GetTreeEntryByPath(n)
    IN IF n = <<>>
       THEN OpenResult("dir", "nil", "root", "root", RootFileInfo, RootEntries, <<>>)
       ELSE IF type = "none" THEN OpenFailed("NotFound", "none", <<n>>)
       ELSE OpenEntry(n, type)

\* --------------------------------------------- http.File on either kind
\* ghfsDir.Read: no bytes and io.EOF, the handle untouched.
DirRead(h) == [d |-> h, n |-> 0, err |-> "EOF"]

\* ghfsDir.Seek: syscall.EISDIR.
DirSeek(h, offset, whence) == [d |-> h, ret |-> 0, err |-> "EISDIR"]

\* ghfsDir.Close: nothing to release.
DirClose(h) == [d |-> h, err |-> "nil"]

\* ghfsFile.Readdir: os.ErrInvalid and no entries, the handle untouched.
FileReaddir(h, count) == [f |-> h, entries |-> <<>>, err |-> "ErrInvalid"]

\* What a call on a handle hands back: the handle after the call, the
\* count (bytes or entries), the error, the bytes or entries, the offset.
CallResult(h, n, err, data, ret) ==
    [h |-> h, n |-> n, err |-> err, data |-> data, ret |-> ret]

\* The four methods of http.File called on a handle of either kind; the
\* ...Of operators put a method's result r on handle h in the common form.
ReadOf(h, r) == CallResult([h EXCEPT !.file = r.f], r.n, r.err, r.data, 0)
DirReadOf(h, r) == CallResult([h EXCEPT !.dir = r.d], r.n, r.err, <<>>, 0)

HRead(h, len, chunk) ==
    IF h.kind = "file" THEN ReadOf(h, Read(h.file, len, chunk))
    ELSE DirReadOf(h, DirRead(h.dir))

SeekOf(h, r) == CallResult([h EXCEPT !.file = r.f], 0, r.err, <<>>, r.ret)
DirSeekOf(h, r) == CallResult([h EXCEPT !.dir = r.d], 0, r.err, <<>>, r.ret)

HSeek(h, offset, whence, chunk) ==
    IF h.kind = "file" THEN SeekOf(h, Seek(h.file, offset, whence, chunk))
    ELSE DirSeekOf(h, DirSeek(h.dir, offset, whence))

FileReaddirOf(h, r) ==
    CallResult([h EXCEPT !.file = r.f], Len(r.entries), r.err, r.entries, 0)
ReaddirOf(h, r) ==
    CallResult([h EXCEPT !.dir = r.d], Len(r.entries), r.err, r.entries, 0)

HReaddir(h, count) ==
    IF h.kind = "file" THEN FileReaddirOf(h, FileReaddir(h.file, count))
    ELSE ReaddirOf(h, Readdir(h.dir, count))

CloseOf(h, r) == CallResult([h EXCEPT !.file = r.f], 0, "nil", <<>>, 0)
DirCloseOf(h, r) == CallResult([h EXCEPT !.dir = r.d], 0, r.err, <<>>, 0)

HClose(h) ==
    IF h.kind = "file" THEN CloseOf(h, Close(h.file))
    ELSE DirCloseOf(h, DirClose(h.dir))

\* A handle table in which the handles of one path are one shared object.
StoreShared(t, i, h) ==
    LET j == CHOOSE k \in DOMAIN t : k # i
    IN IF t[j].kind = h.kind /\ t[j].fi = h.fi
       THEN [t EXCEPT ![i] = h, ![j] = h]
       ELSE [t EXCEPT ![i] = h]

\* Every Open returns a new object (&ghfsFile{...}, &ghfsDir{...}) and the
\* methods change their receiver only: a call on the handle in slot i
\* changes slot i of the handles the caller holds.
Store(t, i, h) == [t EXCEPT ![i] = h]

\* The record of one call Open(name).
OpenCall(name) ==
    LET r == Open(name)
    IN [called |-> TRUE, path |-> name, h |-> r.h, err |-> r.err,
        lookups |-> r.lookups]

\* ------------------------------------------------------------ last calls
NoCall == [op |-> "none", len |-> 0, offset |-> 0, whence |-> 0, n |-> 0,
           ret |-> 0, err |-> "nil", data |-> <<>>, opens |-> 0, pulled |-> 0,
           closes |-> 0, pre |-> NewFile]

NoDirCall == [h |-> "none", count |-> 0, entries |-> <<>>, err |-> "nil", rem |-> 0]
NoFirst == [called |-> FALSE, count |-> 0, entries |-> <<>>]

NoOpen == [called |-> FALSE, path |-> <<>>, h |-> NoHandle, err |-> "nil",
           lookups |-> <<>>]

\* The handles a specification does not drive stay as constructed.
FsIdle ==
    /\ snap = [n \in Names |-> "none"]
    /\ hs = [i \in HandleIds |-> NoHandle]
    /\ olast = NoOpen
    /\ step = "none"

FileIdle ==
    /\ content = <<>>
    /\ eager = FALSE
    /\ f = NewFile
    /\ flast = NoCall
    /\ got = <<>>
    /\ base = 0
    /\ phase = "fresh"
    /\ eofSeen = FALSE
    /\ pos = 0
    /\ fwd = TRUE
    /\ live = 0

NoRes == [slot |-> "none", kind |-> "none", op |-> "none", n |-> 0, err |-> "nil"]

PairIdle ==
    /\ solo = [i \in HandleIds |-> NoHandle]
    /\ same = TRUE
    /\ hres = NoRes

DirIdle ==
    /\ tree = <<>>
    /\ d = NewDir(<<>>)
    /\ u = NewDir(<<>>)
    /\ di = NewDirIdx(<<>>)
    /\ dlast = NoDirCall
    /\ dacc = <<>>
    /\ ufirst = NoFirst

\* ------------------------------------------------------------ file spec
\* The path of the blob the file handle is opened on.
FilePath == <<"/", "a">>

\* The handle f is the one Open(FilePath) returned on a snapshot whose
\* entry "a" is the blob.
FileInit ==
    /\ content \in Contents
    /\ eager \in BOOLEAN
    /\ snap = [n \in Names |-> "blob"]
    /\ olast = OpenCall(FilePath)
    /\ f = olast.h.file
    /\ hs = [i \in HandleIds |-> NoHandle]
    /\ step = "none"
    /\ flast = NoCall
    /\ got = <<>>
    /\ base = 0
    /\ phase = "fresh"
    /\ eofSeen = FALSE
    /\ pos = 0
    /\ fwd = TRUE
    /\ live = 0
    /\ DirIdle
    /\ PairIdle

\* The caller opens the path again and goes on with the new handle.
FileOpen ==
    \E r \in {OpenCall(FilePath)} :
       /\ olast' = r
       /\ f' = r.h.file
       /\ flast' = [NoCall EXCEPT !.op = "open", !.pre = f]
       /\ got' = <<>>
       /\ eofSeen' = FALSE
       /\ phase' = "fresh"
       /\ base' = 0
       /\ pos' = 0
       /\ fwd' = TRUE
       /\ live' = 0
       /\ UNCHANGED <<content, eager, snap, hs, step, dvars, pvars>>

FileRead ==
    \E len \in 1..MaxLen, chunk \in 1..MaxLen :
        \E r \in {Read(f, len, chunk)} :
           /\ f' = r.f
           /\ flast' = [NoCall EXCEPT !.op = "read", !.len = len, !.n = r.n,
                                      !.err = r.err, !.data = r.data,
                                      !.opens = r.opens, !.pulled = r.pulled,
                                      !.pre = f]
           /\ got' = got \o r.data
           /\ eofSeen' = (eofSeen \/ r.err = "EOF")
           /\ pos' = pos + RefRead(pos, len, chunk)
           /\ live' = live + r.opens
           /\ UNCHANGED <<content, eager, base, phase, fwd, dvars, ovars, pvars>>

FileSeek ==
    \E offset \in Offsets, whence \in Whences, chunk \in 1..MaxLen :
        \E r \in {Seek(f, offset, whence, chunk)},
           t \in {RefTarget(pos, offset, whence)} :
           /\ t <= MaxSize + 1
           /\ f' = r.f
           /\ flast' = [NoCall EXCEPT !.op = "seek", !.offset = offset,
                                      !.whence = whence, !.ret = r.ret,
                                      !.err = r.err, !.opens = r.opens,
                                      !.pulled = r.pulled, !.closes = r.closes,
                                      !.pre = f]
           /\ got' = <<>>
           /\ eofSeen' = FALSE
           /\ phase' = IF r.err # "nil" THEN "failed"
                       ELSE IF r.ret < LogOff(f) THEN "back" ELSE "seek"
           /\ base' = IF r.err = "nil" THEN r.ret ELSE 0
           /\ pos' = IF t >= 0 THEN t ELSE pos
           /\ fwd' = (fwd /\ t >= pos)
           /\ live' = (live - r.closes) + r.opens
           /\ UNCHANGED <<content, eager, dvars, ovars, pvars>>

FileClose ==
    LET c == Close(f)
    IN /\ f' = c.f
       /\ flast' = [NoCall EXCEPT !.op = "close", !.closes = c.closes, !.pre = f]
       /\ got' = <<>>
       /\ eofSeen' = FALSE
       /\ phase' = "closed"
       /\ base' = 0
       /\ fwd' = FALSE
       /\ live' = live - c.closes
       /\ UNCHANGED <<content, eager, pos, dvars, ovars, pvars>>

FileNext == FileOpen \/ FileRead \/ FileSeek \/ FileClose


\* ------------------------------------------------------------- dir spec
DirInit ==
    /\ tree \in Trees
    /\ d = NewDir(tree)
    /\ u = NewDir(tree)
    /\ di = NewDirIdx(tree)
    /\ dlast = NoDirCall
    /\ dacc = <<>>
    /\ ufirst = NoFirst
    /\ FileIdle
    /\ FsIdle
    /\ PairIdle

\* The caller that lists d in pieces: Readdir(count) with count > 0.
DirReaddirPiece ==
    \E count \in 1..MaxCount :
        \E r \in {Readdir(d, count)} :
           /\ d' = r.d
           /\ dlast' = [h |-> "d", count |-> count, entries |-> r.entries,
                        err |-> r.err, rem |-> Len(d.tree) - d.scanned]
           /\ dacc' = dacc \o r.entries
           /\ UNCHANGED <<tree, u, di, ufirst, fvars, ovars, pvars>>

\* Readdir on the second handle, with any count.
DirReaddir ==
    \E count \in Counts :
        \E r \in {Readdir(u, count)} :
           /\ u' = r.d
           /\ dlast' = [h |-> "u", count |-> count, entries |-> r.entries,
                        err |-> r.err, rem |-> Len(u.tree) - u.scanned]
           /\ ufirst' = IF ufirst.called THEN ufirst
                        ELSE [called |-> TRUE, count |-> count, entries |-> r.entries]
           /\ UNCHANGED <<tree, d, di, dacc, fvars, ovars, pvars>>

\* Readdir on the handle of the git2go generation.
DirReaddirIdx ==
    \E count \in Counts :
        \E r \in {ReaddirIdx(di, count)} :
           /\ di' = r.d
           /\ dlast' = [h |-> "di", count |-> count, entries |-> r.entries,
                        err |-> r.err, rem |-> Len(di.tree) - di.idx]
           /\ UNCHANGED <<tree, d, u, dacc, ufirst, fvars, ovars, pvars>>

DirNext == DirReaddirPiece \/ DirReaddir \/ DirReaddirIdx


\* -------------------------------------------------------------- fs spec
\* The filesystem over one snapshot; the caller holds up to two handles and
\* reads, lists and closes them between opens.  The blob of the snapshot is
\* the largest one.
FsInit ==
    /\ snap \in [Names -> Types]
    /\ hs = [i \in HandleIds |-> NoHandle]
    /\ olast = NoOpen
    /\ step = "none"
    /\ content = [i \in 1..MaxSize |-> i]
    /\ eager \in BOOLEAN
    /\ f = NewFile
    /\ flast = NoCall
    /\ got = <<>>
    /\ base = 0
    /\ phase = "fresh"
    /\ eofSeen = FALSE
    /\ pos = 0
    /\ fwd = TRUE
    /\ live = 0
    /\ DirIdle
    /\ PairIdle

\* Open(name); a handle returned is kept in slot i, replacing what was there.
FsOpen ==
    \E name \in Paths, i \in HandleIds :
        \E r \in {Open(name)} :
           /\ olast' = [called |-> TRUE, path |-> name, h |-> r.h, err |-> r.err,
                        lookups |-> r.lookups]
           /\ hs' = IF r.err = "nil" THEN [hs EXCEPT ![i] = r.h] ELSE hs
           /\ step' = "open"
           /\ UNCHANGED <<snap, fvars, dvars, pvars>>

FsRead ==
    \E i \in HandleIds, len \in 1..MaxLen :
        /\ hs[i].kind = "file"
        /\ \E r \in {Read(hs[i].file, len, len)} :
              hs' = [hs EXCEPT ![i].file = r.f]
        /\ step' = "read"
        /\ UNCHANGED <<snap, olast, fvars, dvars, pvars>>

FsReaddir ==
    \E i \in HandleIds, count \in Counts :
        /\ hs[i].kind = "dir"
        /\ \E r \in {Readdir(hs[i].dir, count)} :
              hs' = [hs EXCEPT ![i].dir = r.d]
        /\ step' = "readdir"
        /\ UNCHANGED <<snap, olast, fvars, dvars, pvars>>

FsClose ==
    \E i \in HandleIds :
        /\ hs[i].kind = "file"
        /\ hs' = [hs EXCEPT ![i].file = Close(hs[i].file).f]
        /\ step' = "close"
        /\ UNCHANGED <<snap, olast, fvars, dvars, pvars>>

FsNext == FsOpen \/ FsRead \/ FsReaddir \/ FsClose

\* ------------------------------------------------------------ pair spec
\* Two handles on one snapshot whose entry "a" is a blob or a tree, opened
\* on the root or on "a", with their calls interleaved in every order.
\* solo[i] is driven by the calls on slot i alone.
PairPaths == {<<"/">>, <<"/", "a">>}

PairInit ==
    /\ snap \in [Names -> {"blob", "tree"}]
    /\ hs = [i \in HandleIds |-> NoHandle]
    /\ olast = NoOpen
    /\ step = "none"
    /\ solo = [i \in HandleIds |-> NoHandle]
    /\ same = TRUE
    /\ hres = NoRes
    /\ content = [i \in 1..MaxSize |-> i]
    /\ eager \in BOOLEAN
    /\ f = NewFile
    /\ flast = NoCall
    /\ got = <<>>
    /\ base = 0
    /\ phase = "fresh"
    /\ eofSeen = FALSE
    /\ pos = 0
    /\ fwd = TRUE
    /\ live = 0
    /\ DirIdle

\* Each call is made on the handle the caller holds and on the handle of
\* the run of its slot alone.
Runs == {"held", "alone"}
Handle(k, i) == IF k = "held" THEN hs[i] ELSE solo[i]

\* One call on slot i: r is its result on the handle the caller holds, s
\* its result in the run of slot i alone.
PairCall(i, op, r, s) ==
    /\ hs' = Store(hs, i, r.h)
    /\ solo' = [solo EXCEPT ![i] = s.h]
    /\ same' = (same /\ r.n = s.n /\ r.err = s.err /\ r.data = s.data /\ r.ret = s.ret)
    /\ hres' = [slot |-> i, kind |-> hs[i].kind, op |-> op, n |-> r.n, err |-> r.err]
    /\ UNCHANGED <<snap, olast, step, fvars, dvars>>

PairOpen ==
    \E i \in HandleIds, name \in PairPaths :
        \E r \in {Open(name)} :
           /\ r.err = "nil"
           /\ hs' = Store(hs, i, r.h)
           /\ solo' = [solo EXCEPT ![i] = r.h]
           /\ hres' = [slot |-> i, kind |-> r.h.kind, op |-> "open", n |-> 0,
                       err |-> r.err]
           /\ UNCHANGED <<same, snap, olast, step, fvars, dvars>>

PairRead ==
    \E i \in HandleIds, len \in 1..MaxLen, chunk \in 1..MaxLen :
        /\ hs[i].kind # "none"
        /\ \E rs \in {[k \in Runs |-> HRead(Handle(k, i), len, chunk)]} :
              PairCall(i, "read", rs["held"], rs["alone"])

PairSeek ==
    \E i \in HandleIds, offset \in Offsets, whence \in Whences :
        /\ hs[i].kind # "none"
        /\ \E rs \in {[k \in Runs |-> HSeek(Handle(k, i), offset, whence, MaxLen)]} :
              PairCall(i, "seek", rs["held"], rs["alone"])

PairReaddir ==
    \E i \in HandleIds, count \in Counts :
        /\ hs[i].kind # "none"
        /\ \E rs \in {[k \in Runs |-> HReaddir(Handle(k, i), count)]} :
              PairCall(i, "readdir", rs["held"], rs["alone"])

PairClose ==
    \E i \in HandleIds :
        /\ hs[i].kind # "none"
        /\ \E rs \in {[k \in Runs |-> HClose(Handle(k, i))]} :
              PairCall(i, "close", rs["held"], rs["alone"])

PairNext == PairOpen \/ PairRead \/ PairSeek \/ PairReaddir \/ PairClose

\* ------------------------------------------------------- specifications
\* Two handles of either kind with their calls interleaved.
SpecPair == PairInit /\ [][PairNext]_vars

\* One ghfsFile over one blob, driven by Read, Seek and Close.
SpecFile == FileInit /\ [][FileNext]_vars

\* Directory handles over one tree, driven by Readdir.
SpecDir == DirInit /\ [][DirNext]_vars

\* ghfs.Open over one snapshot, with the handles it returned in use.
SpecFS == FsInit /\ [][FsNext]_vars

\* ------------------------------------------------------- file claims
\* C1: over reads and forward seeks only (any whence, targets beyond the
\* blob's end included) the handle reports the offset of a random-access
\* file driven by the same calls, and each seek returns it without error.
C1_OffsetMatchesRandomAccess ==
    fwd => /\ LogOff(f) = pos
           /\ flast.op = "seek" => (flast.ret = pos /\ flast.err = "nil")

\* C2: after a backward seek that returned base, the reads that follow
\* deliver the blob's bytes from index base on, in order, and io.EOF comes
\* exactly when the last byte has been delivered; for base = 0 that is the
\* whole blob, as a fresh handle delivers it.
C2_BackwardSeekThenRead ==
    phase = "back" =>
        /\ base + Len(got) <= Size
        /\ got = SubSeq(content, base + 1, base + Len(got))
        /\ eofSeen => base + Len(got) = Size

C2_Witness ==
    /\ phase = "back"
    /\ eofSeen
    /\ base = 1
    /\ got = SubSeq(content, 2, Size)
    /\ Len(got) >= 2

\* C3: Seek(0, SEEK_END) returns the entry's size with no error whatever
\* the handle's state, asks the store for no stream and pulls no byte.
C3_SeekEndNoRead ==
    (flast.op = "seek" /\ flast.whence = SEEK_END /\ flast.offset = 0) =>
        /\ flast.ret = Size
        /\ flast.err = "nil"
        /\ flast.opens = 0
        /\ flast.pulled = 0
        /\ flast.closes = 0
        /\ f.open = flast.pre.open
        /\ f.spos = flast.pre.spos

C3_Witness ==
    /\ flast.op = "seek" /\ flast.whence = SEEK_END /\ flast.offset = 0
    /\ flast.pre.open /\ flast.pre.off = 1 /\ ~flast.pre.atEnd
    /\ Size >= 3
    /\ flast.ret = Size

\* C4: a fresh handle that is only read delivers the blob's bytes in order,
\* and when the first io.EOF is reported exactly Size bytes, the whole
\* blob, have been delivered.
C4_FullReadDeliversSize ==
    phase = "fresh" =>
        /\ Len(got) <= Size
        /\ got = SubSeq(content, 1, Len(got))
        /\ eofSeen => got = content

C4_Witness ==
    /\ phase = "fresh"
    /\ eofSeen
    /\ Len(got) >= 3
    /\ got = content


\* -------------------------------------------------- directory claims
\* C5: once the handle listed in pieces (counts > 0) is exhausted, the
\* pieces concatenated are what one Readdir with a count <= 0, called
\* first on a fresh handle of the same tree, returned.
C5_PiecesEqualUnbounded ==
    (d.scanned = Len(tree) /\ ufirst.called /\ ufirst.count <= 0) =>
        dacc = ufirst.entries

\* C6: one Readdir(count) with rem entries left returns min(count, rem)
\* entries when count > 0 and all rem entries when count <= 0.
C6_ReaddirReturnsCount ==
    dlast.h # "none" =>
        Len(dlast.entries) = IF dlast.count > 0 THEN Min(dlast.count, dlast.rem)
                             ELSE dlast.rem

\* C7: a Readdir called on an exhausted handle returns no entry and the
\* end-of-listing signal (io.EOF), every time it is called.
C7_ExhaustedReportsDone ==
    (dlast.h # "none" /\ dlast.rem = 0) =>
        (dlast.entries = <<>> /\ dlast.err = "EOF")

\* ------------------------------------------------- filesystem claims
\* C8: Open("") and Open("/") return, without error, a directory handle
\* over the snapshot's root tree whose Stat has name "", size 0 and is a
\* directory, and ask the store to resolve no path.
C8_RootOpen ==
    (olast.called /\ olast.path \in {<<>>, <<"/">>}) =>
        /\ olast.err = "nil"
        /\ olast.h.kind = "dir"
        /\ olast.h.tree = "root"
        /\ olast.h.dir = [tree |-> RootEntries, scanned |-> 0]
        /\ olast.h.fi = [name |-> <<>>, size |-> 0, dir |-> TRUE]
        /\ olast.lookups = <<>>

C8_Witness ==
    /\ olast.called
    /\ olast.path = <<"/">>
    /\ olast.h.kind = "dir"
    /\ snap["a"] = "blob"
    /\ olast.h.dir.tree = <<"a">>

C10_NotFound ==
    [][(/\ step' = "open"
        /\ StripSlash(olast'.path) # <<>>
        /\ GetTreeEntryByPath(StripSlash(olast'.path)) = "none")
       => (/\ olast'.err = "NotFound"
           /\ olast'.h.kind = "none"
           /\ hs' = hs)]_vars

C10_Witness ==
    /\ step = "open"
    /\ olast.path = <<"/", "b">>
    /\ olast.err = "NotFound"
    /\ hs["h1"].kind = "file" /\ hs["h1"].file.off > 0
    /\ hs["h2"].kind = "dir" /\ hs["h2"].dir.scanned > 0

\* ---------------------------------------- claims on ghfsFile, continued
\* C11: after Close on a file handle every later Read fails: it returns an
\* error, which the end-of-data signal is not, and delivers no bytes.
C11_ReadAfterCloseFails ==
    (phase = "closed" /\ flast.op = "read")
       => (flast.n = 0 /\ flast.err \notin {"nil", "EOF"})

\* The target of the last Seek as the caller computes it: from the offset
\* for SEEK_SET, from the position the handle reported before the call for
\* SEEK_CUR, from the blob size for SEEK_END.
LastTarget ==
    IF flast.whence = SEEK_SET THEN flast.offset
    ELSE IF flast.whence = SEEK_CUR THEN LogOff(flast.pre) + flast.offset
    ELSE Size + flast.offset

\* C15: a Seek with a valid whence whose target lies in 0..Size, from any
\* state of the handle, returns the target with no error, and the reads
\* that follow deliver the blob's bytes from the target on, with
\* end-of-data only at the end of the blob.
C15_SeekWithinSize ==
    /\ (/\ flast.op = "seek"
        /\ flast.whence \in {SEEK_SET, SEEK_CUR, SEEK_END}
        /\ LastTarget \in 0..Size)
       => (flast.ret = LastTarget /\ flast.err = "nil" /\ LogOff(f) = LastTarget)
    /\ (phase \in {"back", "seek"})
       => (/\ got = SubSeq(content, base + 1, base + Len(got))
           /\ base + Len(got) <= Size
           /\ LogOff(f) = base + Len(got)
           /\ eofSeen => base + Len(got) = Size)

C15_Witness ==
    /\ phase = "seek"
    /\ flast.op = "read"
    /\ flast.pre.atEnd = FALSE
    /\ base = 1
    /\ got = <<2, 3>>
    /\ eofSeen

\* C16: a Read on a handle that is at the end after Seek(0, SEEK_END)
\* returns 0 bytes and end-of-data without asking the store for a stream
\* and without pulling bytes from the stream it holds.
C16_ReadAtEndLeavesStream ==
    (flast.op = "read" /\ flast.pre.atEnd)
       => (/\ flast.n = 0
           /\ flast.err = "EOF"
           /\ flast.opens = 0
           /\ flast.pulled = 0)

\* C17: in every state of a file handle 0 <= off <= size, and whenever the
\* handle holds a stream, the bytes that stream has delivered since it was
\* opened number exactly off.
C17_OffWithinSizeAndAtStream ==
    /\ f.off \in 0..Size
    /\ f.open => f.spos = f.off

C17_Witness ==
    /\ flast.op = "seek"
    /\ flast.closes = 1
    /\ flast.opens = 1
    /\ f.open
    /\ f.off = 1
    /\ flast.pre.off = 3

\* C18: Close on a file handle in any state leaves it with no stream,
\* off = 0 and not at the end.
C18_CloseResets ==
    flast.op = "close" => (~f.open /\ f.off = 0 /\ ~f.atEnd)

\* C19: a Seek that fails with invalid offset or invalid whence leaves
\* what the caller can observe unchanged: the position a Seek(0, SEEK_CUR)
\* would report and the result of the next Read are those of the handle
\* before the failed call.
C19_FailedSeekChangesNothing ==
    (flast.op = "seek"
     /\ flast.err \in {"Invalid offset", "Invalid argument for whence"})
       => (/\ LogOff(f) = LogOff(flast.pre)
           /\ \A len \in 1..MaxLen, chunk \in 1..MaxLen :
                 LET a == Read(f, len, chunk)
                     b == Read(flast.pre, len, chunk)
                 IN a.n = b.n /\ a.err = b.err /\ a.data = b.data)

\* C20: a file handle has at most one stream open at the store at any
\* time: the store's count of open streams is 1 when the handle holds a
\* stream and 0 otherwise, a seek that opens a stream while one was held
\* has closed that one first, and after Close none is open.
C20_AtMostOneStream ==
    /\ live = (IF f.open THEN 1 ELSE 0)
    /\ (flast.opens > 0 /\ flast.pre.open) => (flast.op = "seek" /\ flast.closes = 1)
    /\ flast.opens <= 1
    /\ flast.op = "close" => live = 0

C20_Witness ==
    /\ flast.op = "close"
    /\ flast.closes = 1
    /\ flast.pre.open
    /\ flast.pre.off = 2
    /\ live = 0

\* The bytes the last Seek had to skip by reading: none for an invalid
\* whence, a negative target or Seek(0, SEEK_END); the whole target after
\* the Close of a backward seek; otherwise the distance from off.
LastSkip ==
    IF flast.whence \notin {SEEK_SET, SEEK_CUR, SEEK_END} THEN 0
    ELSE IF flast.offset = 0
            /\ (flast.whence = SEEK_END \/ (flast.whence = SEEK_CUR /\ flast.pre.atEnd))
    THEN 0
    ELSE IF LastTarget < 0 THEN 0
    ELSE IF LastTarget < flast.pre.off THEN LastTarget
    ELSE LastTarget - flast.pre.off

\* C14: Open on a blob's path opens no stream: it resolves the path at
\* the store on every call and returns a handle with no stream, off = 0 and
\* not at the end, whatever the handle held before was doing; a stream is
\* asked of the store only by a Read, called directly or by a Seek that has
\* more than 0 bytes to skip.
C14_OpenIsLazy ==
    /\ flast.op = "open"
       => (/\ olast.err = "nil"
           /\ olast.h.kind = "file"
           /\ olast.lookups = <<StripSlash(olast.path)>>
           /\ f = [open |-> FALSE, spos |-> 0, off |-> 0, atEnd |-> FALSE]
           /\ flast.opens = 0
           /\ live = 0)
    /\ flast.op = "none" => (~f.open /\ f.off = 0 /\ ~f.atEnd /\ live = 0)
    /\ flast.opens > 0
       => (flast.op = "read" \/ (flast.op = "seek" /\ LastSkip > 0))
    /\ (f.open /\ ~flast.pre.open) => flast.opens = 1

C14_Witness ==
    /\ flast.op = "open"
    /\ flast.pre.open
    /\ flast.pre.off = 2
    /\ ~f.open
    /\ f.off = 0
    /\ olast.lookups = <<<<"a">>>>

\* ------------------------------------------------ claims on two handles
\* C12: Read on a directory handle and Readdir on a file handle each
\* return an error that is neither the end-of-data signal of a read nor
\* the result of a Readdir on an empty or exhausted directory.
C12_TypeMismatchIsExplicit ==
    /\ (hres.kind = "dir" /\ hres.op = "read")
       => hres.err \notin {"nil", "EOF"}
    /\ (hres.kind = "file" /\ hres.op = "readdir")
       => (hres.err \notin {"nil", "EOF"} /\ hres.n = 0)

====
